---- MODULE Spec2Model ----
\* Model of the email-OTP authentication service (src/main.py, src/sqllite3.py).
\* The two SQLite tables, the wall clock and the last request/response pair
\* are the state. Spec serves the requests one after the other, each handler
\* as one atomic action; SpecReissue does the same for the challenge requests
\* and keeps the overwritten code on record; SpecConcurrent serves two
\* requests side by side, one statement at a time.
EXTENDS Integers, Sequences, FiniteSets, TLC

\* ---------------------------------------------------------------- bounds
MaxTicks == 2          \* number of clock advances explored
MaxRevoked == 2        \* rows explored in blacklisted_tokens

\* ------------------------------------------------------- program constants
ACCESS_TOKEN_EXPIRE_MINUTES == 30
OTP_TTL == 180

\* ------------------------------------------------------------ input sets
Emails == {"a@x.com"}
Workers == {"w1", "w2"}
Codes == {"111111", "222222"}
Deltas == {OTP_TTL, ACCESS_TOKEN_EXPIRE_MINUTES * 60}

\* Python None / SQL NULL, and an optional value holding v.
None == << >>
Some(v) == << v >>

\* A bearer string, described by what jwt.decode finds in it.
Token(wf, sig, sub, exp) == [wf |-> wf, sig |-> sig, sub |-> sub, exp |-> exp]
Garbage == Token(FALSE, FALSE, None, 0)
BadSignature == Token(TRUE, FALSE, Some("a@x.com"), 100000)
NoSubject == Token(TRUE, TRUE, None, 100000)
Forged == {Garbage, BadSignature, NoSubject}

VARIABLES users, blacklisted_tokens, now, ticks, bearer, outbox, request, response

\* superseded: the code that the latest send_otp overwrote.
\* pc, frame, replies: the position, the locals and the answer of each of the
\* requests that are served side by side, each on its own connection.
VARIABLES superseded, pc, frame, replies

inflight == << pc, frame, replies >>

vars == << users, blacklisted_tokens, now, ticks, bearer, outbox, request, response,
           superseded, pc, frame, replies >>

\* ------------------------------------------------------------- responses
Request(op, email, otp, token) ==
    [op |-> op, email |-> email, otp |-> otp, token |-> token]

Response(status, detail, access_token, email) ==
    [status |-> status, detail |-> detail, access_token |-> access_token, email |-> email]

HTTPException(status, detail) == Response(status, detail, None, None)

\* An exception no handler catches: the framework answers 500.
Unhandled(exc) == Response(500, exc, None, None)

Ok(message) == Response(200, message, None, None)

\* ------------------------------------------------------------- the codec
\* Variant: the lifetime is taken as seconds instead of minutes.
create_access_token_seconds(sub, t) ==
    Token(TRUE, TRUE, Some(sub), t + ACCESS_TOKEN_EXPIRE_MINUTES)

create_access_token(sub, t) ==
    Token(TRUE, TRUE, Some(sub), t + ACCESS_TOKEN_EXPIRE_MINUTES * 60)

jwt_decode(token, t) ==
    IF ~token.wf THEN "DecodeError"
    ELSE IF ~token.sig THEN "InvalidSignatureError"
    ELSE IF token.exp <= t THEN "ExpiredSignatureError"
    ELSE "payload"

\* Variant: an expired token is reported apart from the other failures.
verify_token_expired_apart(token, t) ==
    IF jwt_decode(token, t) = "payload"
    THEN IF token.sub = None
         THEN HTTPException(401, "Invalid token")
         ELSE Response(200, "Token is valid", None, token.sub)
    ELSE IF jwt_decode(token, t) = "ExpiredSignatureError"
    THEN HTTPException(401, "Token expired")
    ELSE HTTPException(401, "Invalid token")

verify_token(token, t) ==
    IF jwt_decode(token, t) = "payload"
    THEN IF token.sub = None
         THEN HTTPException(401, "Invalid token")
         ELSE Response(200, "Token is valid", None, token.sub)
    ELSE HTTPException(401, "Invalid token")

\* Variant: the revocation table is never consulted.
is_token_blacklisted_skipped(token) == FALSE

is_token_blacklisted(token) == token \in blacklisted_tokens

\* ------------------------------------------------------------ the tables
Row(otp, timestamp) == [otp |-> otp, timestamp |-> timestamp]

InsertUser(email) ==
    [x \in DOMAIN users \cup {email} |->
        IF x = email THEN Row(None, None) ELSE users[x]]

\* Variant: clearing nulls the otp column and forgets the timestamp column.
UpdateUser_otp_only(email, otp, timestamp) ==
    [x \in DOMAIN users |->
        IF x = email
        THEN Row(otp, IF timestamp = None THEN users[x].timestamp ELSE timestamp)
        ELSE users[x]]

UpdateUser(email, otp, timestamp) ==
    [x \in DOMAIN users |->
        IF x = email THEN Row(otp, timestamp) ELSE users[x]]

\* -------------------------------------------------------------- handlers
\* Variant: registration written as an upsert.
register_user_upsert(email) ==
    /\ request' = Request("register", Some(email), None, None)
    /\ users' = InsertUser(email)
    /\ response' = Ok("User registered successfully")
    /\ UNCHANGED << blacklisted_tokens, now, ticks, bearer, outbox >>

register_user(email) ==
    /\ request' = Request("register", Some(email), None, None)
    /\ IF email \in DOMAIN users
       THEN /\ response' = HTTPException(400, "Email already registered")
            /\ users' = users
       ELSE /\ users' = InsertUser(email)
            /\ response' = Ok("User registered successfully")
    /\ UNCHANGED << blacklisted_tokens, now, ticks, bearer, outbox >>

\* What the notifier was last handed, whether or not it then delivers.
send_email(to_email, otp) ==
    Some([to |-> to_email, otp |-> otp])

\* Variant: no existence check; the UPDATE touches no row and the mail goes out.
send_otp_unchecked(email, otp, delivered) ==
    /\ request' = Request("send_otp", Some(email), None, None)
    /\ users' = UpdateUser(email, Some(otp), Some(now))
    /\ outbox' = send_email(email, otp)
    /\ response' = IF delivered
                   THEN Ok("OTP sent")
                   ELSE HTTPException(500, "Failed to send email")
    /\ UNCHANGED << blacklisted_tokens, now, ticks, bearer >>

\* Variant: the commit is made only after the mail went out.
send_otp_commit_after_send(email, otp, delivered) ==
    /\ request' = Request("send_otp", Some(email), None, None)
    /\ IF email \notin DOMAIN users
       THEN /\ response' = HTTPException(400, "Email not allowed")
            /\ UNCHANGED << users, outbox >>
       ELSE /\ users' = IF delivered
                        THEN UpdateUser(email, Some(otp), Some(now))
                        ELSE users
            /\ outbox' = send_email(email, otp)
            /\ response' = IF delivered
                           THEN Ok("OTP sent")
                           ELSE HTTPException(500, "Failed to send email")
    /\ UNCHANGED << blacklisted_tokens, now, ticks, bearer >>

\* Variant: a pending challenge is kept and the new code is only mailed.
send_otp_keep_pending(email, otp, delivered) ==
    /\ request' = Request("send_otp", Some(email), None, None)
    /\ IF email \notin DOMAIN users
       THEN /\ response' = HTTPException(400, "Email not allowed")
            /\ UNCHANGED << users, outbox >>
       ELSE /\ users' = IF users[email].otp = None
                        THEN UpdateUser(email, Some(otp), Some(now))
                        ELSE users
            /\ outbox' = send_email(email, otp)
            /\ response' = IF delivered
                           THEN Ok("OTP sent")
                           ELSE HTTPException(500, "Failed to send email")
    /\ UNCHANGED << blacklisted_tokens, now, ticks, bearer >>

send_otp(email, otp, delivered) ==
    /\ request' = Request("send_otp", Some(email), None, None)
    /\ IF email \notin DOMAIN users
       THEN /\ response' = HTTPException(400, "Email not allowed")
            /\ UNCHANGED << users, outbox >>
       ELSE /\ users' = UpdateUser(email, Some(otp), Some(now))
            /\ outbox' = send_email(email, otp)
            /\ response' = IF delivered
                           THEN Ok("OTP sent")
                           ELSE HTTPException(500, "Failed to send email")
    /\ UNCHANGED << blacklisted_tokens, now, ticks, bearer >>

\* Variant: the challenge is aged against the credential lifetime.
otp_expired_wrong_ttl(current_time, timestamp) ==
    current_time - timestamp > ACCESS_TOKEN_EXPIRE_MINUTES * 60

\* Variant: the age of the challenge is never tested.
otp_expired_never(current_time, timestamp) == FALSE

\* Variant: the challenge is refused from the 180th second on.
otp_expired_at_ttl(current_time, timestamp) ==
    current_time - timestamp >= OTP_TTL

otp_expired(current_time, timestamp) ==
    current_time - timestamp > OTP_TTL

\* Variant: the comparison is dropped and every code is accepted.
otp_mismatch_never(stored_otp, otp) == FALSE

otp_mismatch(stored_otp, otp) ==
    stored_otp # Some(otp)

verify_otp(email, otp) ==
    LET current_time == now IN
    /\ request' = Request("verify_otp", Some(email), Some(otp), None)
    /\ IF email \notin DOMAIN users
       THEN /\ response' = HTTPException(404, "OTP not found")
            /\ UNCHANGED << users, bearer >>
       ELSE LET stored_otp == users[email].otp
                timestamp == users[email].timestamp
            IN  IF timestamp = None
                THEN \* float - None raises TypeError before any write
                     /\ response' = Unhandled("TypeError")
                     /\ UNCHANGED << users, bearer >>
                ELSE IF otp_expired(current_time, timestamp[1])
                THEN /\ users' = UpdateUser(email, None, None)
                     /\ response' = HTTPException(400, "OTP expired")
                     /\ UNCHANGED bearer
                ELSE IF otp_mismatch(stored_otp, otp)
                THEN /\ response' = HTTPException(400, "Invalid OTP")
                     /\ UNCHANGED << users, bearer >>
                ELSE /\ users' = UpdateUser(email, None, None)
                     /\ response' = Response(200, "bearer",
                            Some(create_access_token(email, now)), None)
                     /\ bearer' = Some(create_access_token(email, now))
    /\ UNCHANGED << blacklisted_tokens, now, ticks, outbox >>

token_check(token) ==
    /\ request' = Request("token_check", None, None, Some(token))
    /\ response' = IF is_token_blacklisted(token)
                   THEN HTTPException(401, "Token has been revoked")
                   ELSE verify_token(token, now)
    /\ UNCHANGED << users, blacklisted_tokens, now, ticks, bearer, outbox >>

\* Variant: the table keeps the latest revoked token only.
logout_replace(token) ==
    /\ token \in blacklisted_tokens \/ Cardinality(blacklisted_tokens) < MaxRevoked
    /\ request' = Request("logout", None, None, Some(token))
    /\ IF token \in blacklisted_tokens
       THEN /\ response' = Unhandled("IntegrityError")
            /\ UNCHANGED blacklisted_tokens
       ELSE /\ blacklisted_tokens' = {token}
            /\ response' = Ok("Successfully logged out")
    /\ UNCHANGED << users, now, ticks, bearer, outbox >>

logout(token) ==
    /\ token \in blacklisted_tokens \/ Cardinality(blacklisted_tokens) < MaxRevoked
    /\ request' = Request("logout", None, None, Some(token))
    /\ IF token \in blacklisted_tokens
       THEN \* token is the PRIMARY KEY: the INSERT raises sqlite3.IntegrityError
            /\ response' = Unhandled("IntegrityError")
            /\ UNCHANGED blacklisted_tokens
       ELSE /\ blacklisted_tokens' = blacklisted_tokens \cup {token}
            /\ response' = Ok("Successfully logged out")
    /\ UNCHANGED << users, now, ticks, bearer, outbox >>

\* The wall clock advances between requests.
Tick(d) ==
    /\ ticks < MaxTicks
    /\ now' = now + d
    /\ ticks' = ticks + 1
    /\ UNCHANGED << users, blacklisted_tokens, bearer, outbox, request, response >>

\* Bearer strings a caller can present: the one it was given, anything it
\* presented before and that was recorded, or one it made up.
Presentable ==
    Forged \cup blacklisted_tokens \cup {bearer[i] : i \in DOMAIN bearer}

\* The locals of a handler: its arguments, the clock value it read, the row
\* its SELECT fetched, and the row it found when the request came in.
Frame(op, email, otp, current_time, result, began) ==
    [op |-> op, email |-> email, otp |-> otp, current_time |-> current_time,
     result |-> result, began |-> began]

NoFrame == Frame("none", None, None, 0, None, None)

Init ==
    /\ users = << >>
    /\ blacklisted_tokens = {}
    /\ now = 0
    /\ ticks = 0
    /\ bearer = None
    /\ outbox = None
    /\ request = Request("none", None, None, None)
    /\ response = Ok("")
    /\ superseded = None
    /\ pc = [w \in Workers |-> "idle"]
    /\ frame = [w \in Workers |-> NoFrame]
    /\ replies = [w \in Workers |-> None]

\* Requests served one after the other.
Next ==
    /\ \/ \E email \in Emails : register_user(email)
       \/ \E email \in Emails, otp \in Codes, delivered \in BOOLEAN :
               send_otp(email, otp, delivered)
       \/ \E email \in Emails, otp \in Codes : verify_otp(email, otp)
       \/ \E token \in Presentable : token_check(token)
       \/ \E token \in Presentable : logout(token)
       \/ \E d \in Deltas : Tick(d)
    /\ UNCHANGED << superseded, pc, frame, replies >>

\* The challenge requests and redemptions alone, served one after the other,
\* with the code each send_otp overwrote kept on record.
NextReissue ==
    /\ \/ /\ \E email \in Emails : register_user(email)
          /\ UNCHANGED superseded
       \/ \E email \in Emails, otp \in Codes, delivered \in BOOLEAN :
             /\ send_otp(email, otp, delivered)
             /\ superseded' = IF email \in DOMAIN users
                               THEN users[email].otp
                               ELSE superseded
       \/ /\ \E email \in Emails, otp \in Codes : verify_otp(email, otp)
          /\ UNCHANGED superseded
       \/ /\ \E d \in Deltas : Tick(d)
          /\ UNCHANGED superseded
    /\ UNCHANGED << pc, frame, replies >>

SpecReissue == Init /\ [][NextReissue]_vars

\* ------------------------------------------- requests served side by side
\* Each worker serves one request on its own connection; the database
\* serialises single statements (a write together with its commit), so the
\* statements of two handlers interleave.
fetchone(email) ==
    IF email \in DOMAIN users THEN Some(users[email]) ELSE None

Reply(w, r) ==
    /\ replies' = [replies EXCEPT ![w] = Some(r)]
    /\ pc' = [pc EXCEPT ![w] = "done"]

Goto(w, label) ==
    /\ pc' = [pc EXCEPT ![w] = label]
    /\ UNCHANGED replies

\* The request comes in and the handler reads its arguments (and the clock).
Receive(w, op, email, otp) ==
    /\ pc[w] = "idle"
    /\ frame' = [frame EXCEPT ![w] =
                    Frame(op, Some(email), otp, now, None, fetchone(email))]
    /\ Goto(w, op)
    /\ UNCHANGED << users, blacklisted_tokens, now, ticks, bearer, outbox,
                    request, response, superseded >>

\* SELECT email FROM users, and the test of what it fetched.
register_user_select(w) ==
    LET email == frame[w].email[1]
        user == fetchone(email)
    IN  /\ pc[w] = "register"
        /\ frame' = [frame EXCEPT ![w].result = user]
        /\ IF user # None
           THEN Reply(w, HTTPException(400, "Email already registered"))
           ELSE Goto(w, "register_insert")
        /\ UNCHANGED << users, blacklisted_tokens, now, ticks, bearer, outbox,
                        request, response, superseded >>

\* INSERT INTO users and commit; email is the PRIMARY KEY.
register_user_insert(w) ==
    LET email == frame[w].email[1] IN
    /\ pc[w] = "register_insert"
    /\ IF email \in DOMAIN users
       THEN /\ Reply(w, Unhandled("IntegrityError"))
            /\ UNCHANGED users
       ELSE /\ users' = InsertUser(email)
            /\ Reply(w, Ok("User registered successfully"))
    /\ UNCHANGED << blacklisted_tokens, now, ticks, bearer, outbox,
                    request, response, superseded, frame >>

send_otp_select(w) ==
    LET email == frame[w].email[1]
        user == fetchone(email)
    IN  /\ pc[w] = "send_otp"
        /\ frame' = [frame EXCEPT ![w].result = user]
        /\ IF user = None
           THEN Reply(w, HTTPException(400, "Email not allowed"))
           ELSE Goto(w, "send_otp_update")
        /\ UNCHANGED << users, blacklisted_tokens, now, ticks, bearer, outbox,
                        request, response, superseded >>

\* generate_otp, time.time, UPDATE users and commit.
send_otp_update(w, otp) ==
    LET email == frame[w].email[1] IN
    /\ pc[w] = "send_otp_update"
    /\ users' = UpdateUser(email, Some(otp), Some(now))
    /\ frame' = [frame EXCEPT ![w].otp = Some(otp)]
    /\ Goto(w, "send_otp_email")
    /\ UNCHANGED << blacklisted_tokens, now, ticks, bearer, outbox,
                    request, response, superseded >>

send_otp_email(w, delivered) ==
    /\ pc[w] = "send_otp_email"
    /\ outbox' = send_email(frame[w].email[1], frame[w].otp[1])
    /\ Reply(w, IF delivered
                THEN Ok("OTP sent")
                ELSE HTTPException(500, "Failed to send email"))
    /\ UNCHANGED << users, blacklisted_tokens, now, ticks, bearer,
                    request, response, superseded, frame >>

\* SELECT otp, timestamp FROM users.
verify_otp_select(w) ==
    LET email == frame[w].email[1]
        result == fetchone(email)
    IN  /\ pc[w] = "verify_otp"
        /\ frame' = [frame EXCEPT ![w].result = result]
        /\ IF result = None
           THEN Reply(w, HTTPException(404, "OTP not found"))
           ELSE Goto(w, "verify_otp_check")
        /\ UNCHANGED << users, blacklisted_tokens, now, ticks, bearer, outbox,
                        request, response, superseded >>

\* The tests on the fetched row, and the UPDATE and commit they lead to.
verify_otp_check(w) ==
    LET email == frame[w].email[1]
        otp == frame[w].otp[1]
        current_time == frame[w].current_time
        stored_otp == frame[w].result[1].otp
        timestamp == frame[w].result[1].timestamp
    IN  /\ pc[w] = "verify_otp_check"
        /\ IF timestamp = None
           THEN /\ Reply(w, Unhandled("TypeError"))
                /\ UNCHANGED users
           ELSE IF otp_expired(current_time, timestamp[1])
           THEN /\ users' = UpdateUser(email, None, None)
                /\ Reply(w, HTTPException(400, "OTP expired"))
           ELSE IF otp_mismatch(stored_otp, otp)
           THEN /\ Reply(w, HTTPException(400, "Invalid OTP"))
                /\ UNCHANGED users
           ELSE /\ users' = UpdateUser(email, None, None)
                /\ Reply(w, Response(200, "bearer",
                        Some(create_access_token(email, now)), None))
        /\ UNCHANGED << blacklisted_tokens, now, ticks, bearer, outbox,
                        request, response, superseded, frame >>

AllIdle == \A w \in Workers : pc[w] = "idle"

\* Requests served alone set the scene; then the workers' requests overlap.
NextConcurrent ==
    \/ /\ AllIdle
       /\ \/ \E email \in Emails : register_user(email)
          \/ \E email \in Emails, otp \in Codes, delivered \in BOOLEAN :
                send_otp(email, otp, delivered)
       /\ UNCHANGED << superseded, pc, frame, replies >>
    \/ /\ \E d \in Deltas : Tick(d)
       /\ UNCHANGED << superseded, pc, frame, replies >>
    \/ \E w \in Workers, email \in Emails : Receive(w, "register", email, None)
    \/ \E w \in Workers, email \in Emails : Receive(w, "send_otp", email, None)
    \/ \E w \in Workers, email \in Emails, otp \in Codes :
            Receive(w, "verify_otp", email, Some(otp))
    \/ \E w \in Workers : register_user_select(w)
    \/ \E w \in Workers : register_user_insert(w)
    \/ \E w \in Workers : send_otp_select(w)
    \/ \E w \in Workers, otp \in Codes : send_otp_update(w, otp)
    \/ \E w \in Workers, delivered \in BOOLEAN : send_otp_email(w, delivered)
    \/ \E w \in Workers : verify_otp_select(w)
    \/ \E w \in Workers : verify_otp_check(w)

SpecConcurrent == Init /\ [][NextConcurrent]_vars

Spec == Init /\ [][Next]_vars

\* ================================================================ claims
\* The spec's error kinds, as the handlers answer them.
NoChallenge == HTTPException(404, "OTP not found")
ChallengeExpired == HTTPException(400, "OTP expired")
ChallengeMismatch == HTTPException(400, "Invalid OTP")
AlreadyRegistered == HTTPException(400, "Email already registered")
UnknownIdentity == HTTPException(400, "Email not allowed")
DeliveryFailed == HTTPException(500, "Failed to send email")
Revoked == HTTPException(401, "Token has been revoked")
InvalidCredential == HTTPException(401, "Invalid token")

Registered(e) == e \in DOMAIN users
Pending(e) == Registered(e) /\ users[e].timestamp # None
Elapsed(e) == now - users[e].timestamp[1]
WithinTTL(e) == Elapsed(e) <= OTP_TTL
LastWas(op) == request.op = op
Minted(r) == r.status = 200 /\ r.access_token # None

\* C1: with code c pending for e, the first verify_otp(e, c) within 180
\* seconds returns a credential, and a second verify_otp(e, c) made right
\* after it is answered with NoChallenge.
C1_SingleUseRedemption ==
    [][\A e \in Emails, c \in Codes :
        /\ (Pending(e) /\ WithinTTL(e) /\ users[e].otp = Some(c) /\ verify_otp(e, c))
              => Minted(response')
        /\ (LastWas("verify_otp") /\ request.email = Some(e) /\ request.otp = Some(c)
              /\ Minted(response) /\ verify_otp(e, c))
              => response' = NoChallenge
      ]_vars

\* C2: a verify_otp(e, x) made more than 180 seconds after the pending
\* challenge was issued is answered with ChallengeExpired for every x, mints
\* nothing and leaves e's row with otp and timestamp both NULL.
C2_Expiry ==
    [][\A e \in Emails, x \in Codes :
        (Pending(e) /\ Elapsed(e) > OTP_TTL /\ verify_otp(e, x))
           => /\ response' = ChallengeExpired
              /\ users'[e] = Row(None, None)
              /\ bearer' = bearer
      ]_vars

\* C2 witness: the supplied code was the one last issued to e, and it expired.
C2_Witness ==
    /\ LastWas("verify_otp")
    /\ response = ChallengeExpired
    /\ outbox # None
    /\ request.email = Some(outbox[1].to)
    /\ request.otp = Some(outbox[1].otp)
    /\ users[outbox[1].to] = Row(None, None)

\* C3: a verify_otp(e, x) with a wrong x within the TTL is answered with
\* ChallengeMismatch and changes no row; a verify_otp(e, c) with the stored c
\* that follows a mismatch before the TTL has passed returns a credential.
C3_MismatchRetryable ==
    [][\A e \in Emails, x \in Codes :
        /\ (Pending(e) /\ WithinTTL(e) /\ users[e].otp # Some(x) /\ verify_otp(e, x))
              => /\ response' = ChallengeMismatch
                 /\ users' = users
                 /\ bearer' = bearer
        /\ (LastWas("verify_otp") /\ request.email = Some(e) /\ response = ChallengeMismatch
              /\ Pending(e) /\ WithinTTL(e) /\ users[e].otp = Some(x) /\ verify_otp(e, x))
              => /\ Minted(response')
                 /\ response'.access_token = Some(create_access_token(e, now))
      ]_vars

\* C3 witness: a mismatch has been answered while the challenge is still live.
C3_Witness ==
    /\ LastWas("verify_otp")
    /\ response = ChallengeMismatch
    /\ \E e \in Emails :
          /\ request.email = Some(e)
          /\ Pending(e) /\ WithinTTL(e)
          /\ users[e].otp # request.otp

\* C4: register_user(e) on an unknown e answers success and inserts a row
\* with no challenge; on a known e it answers AlreadyRegistered and changes
\* no row, whatever challenge is pending.
C4_RegistrationNotIdempotent ==
    [][\A e \in Emails :
        register_user(e) =>
           IF Registered(e)
           THEN response' = AlreadyRegistered /\ users' = users
           ELSE /\ response' = Ok("User registered successfully")
                /\ DOMAIN users' = DOMAIN users \cup {e}
                /\ users'[e] = Row(None, None)
                /\ \A o \in DOMAIN users : users'[o] = users[o]
      ]_vars

\* C4 witness: a second registration was refused while a challenge is pending.
C4_Witness ==
    /\ LastWas("register")
    /\ response = AlreadyRegistered
    /\ \E e \in Emails : request.email = Some(e) /\ Pending(e)

\* C5: a token_check of a minted credential right after its logout is
\* answered with Revoked although its signature is valid and it has not
\* expired.
C5_RevocationOverridesValidity ==
    [][\A t \in Presentable :
        (LastWas("logout") /\ request.token = Some(t)
            /\ verify_token(t, now).status = 200 /\ token_check(t))
           => response' = Revoked
      ]_vars

\* C5 witness: a revoked credential that would otherwise verify was checked.
C5_Witness ==
    /\ LastWas("token_check")
    /\ response = Revoked
    /\ request.token = bearer
    /\ verify_token(bearer[1], now).status = 200

\* C6: logout(t) answers success for every t in every state, and on an
\* already revoked t it leaves the revocation table as it was.
C6_RevokeIdempotent ==
    [][\A t \in Presentable :
        logout(t) =>
           /\ response' = Ok("Successfully logged out")
           /\ (t \in blacklisted_tokens => blacklisted_tokens' = blacklisted_tokens)
      ]_vars

\* C7: verify_otp(e, x) on a registered e whose row holds no challenge is
\* answered with NoChallenge for every x, mints nothing and changes no row.
C7_VerifyWithoutChallenge ==
    [][\A e \in Emails, x \in Codes :
        (Registered(e) /\ users[e] = Row(None, None) /\ verify_otp(e, x))
           => /\ response' = NoChallenge
              /\ users' = users
              /\ bearer' = bearer
      ]_vars

\* C8: send_otp(e) on an unknown e is answered with UnknownIdentity, inserts
\* no row, stores no challenge and hands nothing to the notifier.
C8_RequestUnknownIdentity ==
    [][\A e \in Emails, c \in Codes, d \in BOOLEAN :
        (~Registered(e) /\ send_otp(e, c, d))
           => /\ response' = UnknownIdentity
              /\ users' = users
              /\ outbox' = outbox
      ]_vars

\* C8 witness: a challenge was requested for an email that has no row.
C8_Witness ==
    /\ LastWas("send_otp")
    /\ response = UnknownIdentity
    /\ \E e \in Emails : request.email = Some(e) /\ ~Registered(e)
    /\ users = << >>
    /\ outbox = None

\* C9: when the notifier fails, send_otp(e) is answered with DeliveryFailed
\* and e's row holds (c, now); a send_otp(e) retried after that failure
\* overwrites the row with the retry's code and time.
C9_DeliveryFailureKeepsChallenge ==
    [][\A e \in Emails, c \in Codes :
        /\ (Registered(e) /\ send_otp(e, c, FALSE))
              => /\ response' = DeliveryFailed
                 /\ users'[e] = Row(Some(c), Some(now))
        /\ \A d \in BOOLEAN :
             (LastWas("send_otp") /\ request.email = Some(e) /\ response = DeliveryFailed
                /\ send_otp(e, c, d))
              => users'[e] = Row(Some(c), Some(now))
      ]_vars

\* C9 witness: delivery failed and the undelivered code is the pending one.
C9_Witness ==
    /\ LastWas("send_otp")
    /\ response = DeliveryFailed
    /\ outbox # None
    /\ request.email = Some(outbox[1].to)
    /\ users[outbox[1].to].otp = Some(outbox[1].otp)

\* C10: a token_check of a string that is not revoked and is corrupted,
\* badly signed, without subject or expired is answered with the one
\* InvalidCredential response.
C10_UniformCredentialFailure ==
    [][\A t \in Presentable :
        (t \notin blacklisted_tokens
            /\ (~t.wf \/ ~t.sig \/ t.sub = None \/ t.exp <= now)
            /\ token_check(t))
           => response' = InvalidCredential
      ]_vars

\* C10 witness: a minted, well-formed credential was checked after its expiry.
C10_Witness ==
    /\ LastWas("token_check")
    /\ response = InvalidCredential
    /\ request.token = bearer
    /\ bearer[1].wf /\ bearer[1].sig /\ bearer[1].sub # None
    /\ bearer[1].exp <= now

\* C11: a credential minted by a successful verify_otp(e, c) at time m carries
\* subject e and expiry m + 30 minutes; while it is not revoked, token_check
\* returns e at every time before that expiry and InvalidCredential at every
\* time after it.
C11_CredentialValidityWindow ==
    [][/\ \A e \in Emails, c \in Codes :
            (verify_otp(e, c) /\ Minted(response'))
               => /\ response'.access_token = Some(Token(TRUE, TRUE, Some(e), now + 30 * 60))
                  /\ bearer' = response'.access_token
       /\ \A t \in Presentable :
            (bearer = Some(t) /\ t \notin blacklisted_tokens /\ token_check(t))
               => /\ now < t.exp => response' = Response(200, "Token is valid", None, t.sub)
                  /\ now > t.exp => response' = InvalidCredential
      ]_vars

\* C11 witness: a minted credential was checked some time after it was minted,
\* before its expiry, and its subject came back.
C11_Witness ==
    /\ LastWas("token_check")
    /\ request.token = bearer
    /\ bearer[1].exp - 30 * 60 < now
    /\ now < bearer[1].exp
    /\ response = Response(200, "Token is valid", None, Some("a@x.com"))

\* C16: logout(t) of a t that is expired or not a well-formed token answers
\* success and records t, and a token_check(t) after it is answered with
\* Revoked, not InvalidCredential.
C16_RevocationNeedsNoValidity ==
    [][\A t \in Presentable :
        /\ ((~t.wf \/ t.exp <= now) /\ logout(t))
              => /\ response' = Ok("Successfully logged out")
                 /\ t \in blacklisted_tokens'
        /\ (LastWas("logout") /\ request.token = Some(t)
              /\ (~t.wf \/ t.exp <= now) /\ token_check(t))
              => response' = Revoked
      ]_vars

\* C17: no step removes a row from blacklisted_tokens, and a token_check of
\* any recorded token is answered with Revoked, whatever happened since it
\* was recorded.
C17_RevocationPermanent ==
    [][/\ blacklisted_tokens \subseteq blacklisted_tokens'
       /\ \A t \in blacklisted_tokens : token_check(t) => response' = Revoked
      ]_vars

\* C17 witness: a credential revoked earlier is still refused after a later
\* revocation of another string, a new challenge and the passing of time.
C17_Witness ==
    /\ LastWas("token_check")
    /\ response = Revoked
    /\ request.token = bearer
    /\ Cardinality(blacklisted_tokens) = 2
    /\ Pending("a@x.com")
    /\ now > 0

\* C18: in every reachable state, in every row of users, otp is NULL exactly
\* when timestamp is NULL.
C18_ChallengeFieldsPaired ==
    \A e \in DOMAIN users : (users[e].otp = None) <=> (users[e].timestamp = None)

\* C18 witness: a row that was written by send_otp and then cleared by a
\* verify_otp holds neither field.
C18_Witness ==
    /\ LastWas("verify_otp")
    /\ response = Response(200, "bearer", bearer, None)
    /\ outbox # None
    /\ users[outbox[1].to] = Row(None, None)
    /\ C18_ChallengeFieldsPaired

\* C19: a step hands out a credential only if it is a verify_otp(e, x) on a
\* registered e whose stored code is x and was issued at most 180 seconds
\* ago, and the credential then carries subject e; no other step and no
\* failing verify_otp mints one.
C19_IssuanceSoundness ==
    [][((Minted(response') /\ (response' # response \/ request' # request))
          \/ bearer' # bearer)
         => \E e \in Emails, x \in Codes :
               /\ verify_otp(e, x)
               /\ Registered(e)
               /\ Pending(e)
               /\ users[e].otp = Some(x)
               /\ Elapsed(e) <= 180
               /\ response'.access_token = bearer'
               /\ bearer'[1].sub = Some(e)
      ]_vars

\* C19 witness: a credential was minted for a challenge that had aged.
C19_Witness ==
    /\ LastWas("verify_otp")
    /\ Minted(response)
    /\ response.access_token = bearer
    /\ bearer[1].sub = request.email
    /\ now > 0
    /\ bearer[1].exp = now + 30 * 60

\* C20: from every reachable state of a registered e, send_otp(e) stores the
\* new code c with the current time, and a verify_otp(e, c) that follows it
\* within 180 seconds with no other request in between returns a credential
\* with subject e.
C20_ReauthenticationPossible ==
    [][\A e \in Emails, c \in Codes :
        /\ \A d \in BOOLEAN :
             (Registered(e) /\ send_otp(e, c, d))
                => users'[e] = Row(Some(c), Some(now))
        /\ (LastWas("send_otp") /\ request.email = Some(e)
              /\ response \in {Ok("OTP sent"), DeliveryFailed}
              /\ users[e].otp = Some(c) /\ Elapsed(e) <= 180
              /\ verify_otp(e, c))
              => /\ Minted(response')
                 /\ response'.access_token[1].sub = Some(e)
      ]_vars

\* C20 witness: e authenticated again after one of its credentials had been
\* revoked, with the code of the latest send_otp.
C20_Witness ==
    /\ LastWas("verify_otp")
    /\ Minted(response)
    /\ outbox # None
    /\ request.email = Some(outbox[1].to)
    /\ request.otp = Some(outbox[1].otp)
    /\ \E t \in blacklisted_tokens : t.wf /\ t.sig /\ t.sub = request.email
    /\ response.access_token[1] \notin blacklisted_tokens

\* C12: when a send_otp(e) storing c2 follows a send_otp(e) that stored
\* c1 # c2, the row holds c2 with the second timestamp and nothing of c1;
\* from then on, within 180 seconds of the second issuance, verify_otp(e, c1)
\* is answered with ChallengeMismatch and verify_otp(e, c2) returns a
\* credential.
C12_OnlyLatestChallengeLive ==
    [][\A e \in Emails, c1 \in Codes : \A c2 \in Codes \ {c1} :
        /\ \A d \in BOOLEAN :
             (LastWas("send_otp") /\ Pending(e) /\ users[e].otp = Some(c1)
                /\ send_otp(e, c2, d))
                => users'[e] = Row(Some(c2), Some(now))
        /\ (superseded = Some(c1) /\ Pending(e) /\ users[e].otp = Some(c2)
              /\ WithinTTL(e) /\ verify_otp(e, c1))
              => response' = ChallengeMismatch /\ users' = users
        /\ (superseded = Some(c1) /\ Pending(e) /\ users[e].otp = Some(c2)
              /\ WithinTTL(e) /\ verify_otp(e, c2))
              => Minted(response')
      ]_vars

\* C12 witness: the overwritten code was tried and refused while the code
\* that replaced it is the pending one.
C12_Witness ==
    /\ LastWas("verify_otp")
    /\ response = ChallengeMismatch
    /\ superseded # None
    /\ request.otp = superseded
    /\ Pending("a@x.com")
    /\ users["a@x.com"].otp # superseded

Served(w, op) == pc[w] = "done" /\ frame[w].op = op
Credentials == {w \in Workers : Minted(replies[w][1])}

\* C13: when a verify_otp(e, c1) has read the pending code c1 and a
\* concurrent send_otp(e) has since replaced it by c2 # c1, the verification
\* returns no credential and its clearing UPDATE does not erase c2.
C13_VerifyRacingReissue ==
    [][\A w \in Workers :
        (/\ frame[w].op = "verify_otp"
         /\ verify_otp_check(w)
         /\ frame[w].result[1].otp = frame[w].otp
         /\ users[frame[w].email[1]].otp # None
         /\ users[frame[w].email[1]].otp # frame[w].otp)
           => /\ ~Minted(replies'[w][1])
              /\ users' = users
      ]_vars

\* C14: when two verify_otp(e, c) requests came in for the same pending
\* challenge (e, c) and both have been answered, at most one of the answers
\* carries a credential.
C14_SingleUseConcurrent ==
    (/\ \A w \in Workers : Served(w, "verify_otp")
     /\ \A w \in Workers :
           /\ frame[w].began # None
           /\ frame[w].began[1].otp = frame[w].otp
     /\ \A v, w \in Workers : frame[v].began = frame[w].began)
       => Cardinality(Credentials) <= 1

\* C15: when two register(e) requests came in while e had no row and both
\* have been answered, one answer is success, the other AlreadyRegistered,
\* and e has its row.
C15_ConcurrentRegistration ==
    (\A w \in Workers : Served(w, "register") /\ frame[w].began = None)
       => /\ \E w \in Workers :
               /\ replies[w] = Some(Ok("User registered successfully"))
               /\ \A v \in Workers \ {w} : replies[v] = Some(AlreadyRegistered)
          /\ \A w \in Workers : frame[w].email[1] \in DOMAIN users
====
